---- MODULE Spec2Model ----
(***************************************************************************)
(* mongotor/database.py: the Database singleton, its Nodes, the refresh    *)
(* loop (_config_nodes / Node.config), node selection and send_message.    *)
(* One action is one callback of the single-threaded IOLoop, or one        *)
(* synchronous API call made by the application.                           *)
(***************************************************************************)
EXTENDS Integers, Sequences, FiniteSets, Bags, TLC

VARIABLES
    instance,   \* Database._instance: None (0) or the index of a Database object
    handles,    \* every Database object ever allocated, with its refresh loop
    cmds,       \* bag of the send_message / command calls issued so far
    ret,        \* outcome of the most recent connect() / disconnect() call
    lastProbe,  \* outcome of the most recent Node.config run
    passes,     \* number of refresh passes started so far, over all loops
    primary     \* the server that is primary in the cluster now (0: none),
                \* by the index of its address; followed by SpecFailover only

vars == <<instance, handles, cmds, ret, lastProbe, passes, primary>>

-----------------------------------------------------------------------------
\* Bounds of the model

\* connect() calls that allocate a Database object
MaxHandles == 2
\* send_message / command calls
MaxCmds == 2
\* refresh passes (runs of _config_nodes) of the handle that SpecProbe and
\* SpecDispatch follow
MaxPasses == 2
\* refresh passes, over the loops of all the handles that Spec follows
MaxLoopPasses == 1

None == 0

-----------------------------------------------------------------------------
\* Inputs of connect(): address strings are sequences of characters

Addr_a1 == <<"a", ":", "1">>
Addr_b2 == <<"b", ":", "2">>
Addr_noColon == <<"a">>
Addr_badPort == <<"b", ":", "x">>

\* addresses is a single str or a list of str
AddressInputs ==
    { [isStr |-> TRUE,  val |-> Addr_a1],
      [isStr |-> FALSE, val |-> <<Addr_a1, Addr_b2>>],
      [isStr |-> TRUE,  val |-> Addr_noColon],
      [isStr |-> FALSE, val |-> <<Addr_a1, Addr_badPort>>] }

\* dbname: a str, or an object of another type
DbNameInputs ==
    { [isStr |-> TRUE,  val |-> "shop"],
      [isStr |-> FALSE, val |-> "42"] }

-----------------------------------------------------------------------------
\* _parse_addresses

Digits == {"0", "1", "2", "3", "4", "5", "6", "7", "8", "9"}

DigitVal(c) ==
    CASE c = "0" -> 0 [] c = "1" -> 1 [] c = "2" -> 2 [] c = "3" -> 3
      [] c = "4" -> 4 [] c = "5" -> 5 [] c = "6" -> 6 [] c = "7" -> 7
      [] c = "8" -> 8 [] c = "9" -> 9

\* str.split(":"): the list of the pieces between the separators
RECURSIVE SplitColon(_, _, _)
SplitColon(s, i, cur) ==
    IF i > Len(s) THEN <<cur>>
    ELSE IF s[i] = ":" THEN <<cur>> \o SplitColon(s, i + 1, <<>>)
    ELSE SplitColon(s, i + 1, Append(cur, s[i]))

\* int(port): defined on a non-empty digit string
IsInt(s) == Len(s) > 0 /\ \A i \in 1..Len(s) : s[i] \in Digits

RECURSIVE ToInt(_, _)
ToInt(s, acc) ==
    IF s = <<>> THEN acc ELSE ToInt(Tail(s), 10 * acc + DigitVal(Head(s)))

\* host, port = address.split(":") and int(port) both succeed
AddressOK(address) ==
    LET parts == SplitColon(address, 1, <<>>)
    IN  Len(parts) = 2 /\ IsInt(parts[2])

ParseAddress(address) ==
    LET parts == SplitColon(address, 1, <<>>)
    IN  <<parts[1], ToInt(parts[2], 0)>>

AsList(addresses) ==
    IF addresses.isStr THEN <<addresses.val>> ELSE addresses.val

\* TRUE when _parse_addresses returns instead of raising ValueError
ParseOK(addresses) ==
    \A i \in 1..Len(AsList(addresses)) : AddressOK(AsList(addresses)[i])

_parse_addresses(addresses) ==
    [i \in 1..Len(AsList(addresses)) |-> ParseAddress(AsList(addresses)[i])]

-----------------------------------------------------------------------------
\* Node

\* a Node that is taken to be available from its construction on
NewNode_available(host, port) ==
    [host |-> host, port |-> port,
     is_primary |-> FALSE, is_master |-> "unset", is_secondary |-> FALSE,
     available |-> TRUE,
     closed |-> 0]

\* Node.__init__: is_master is not assigned here
NewNode(host, port) ==
    [host |-> host, port |-> port,
     is_primary |-> FALSE, is_master |-> "unset", is_secondary |-> FALSE,
     available |-> FALSE,
     closed |-> 0]            \* number of pool.close() calls

\* Node.disconnect
NodeDisconnect(node) == [node EXCEPT !.closed = @ + 1]

\* the role a node's flags stand for
Role(node) ==
    IF node.is_master = "T" THEN "Primary"
    ELSE IF node.is_secondary THEN "Secondary"
    ELSE "Unknown"

-----------------------------------------------------------------------------
\* Database objects

\* the object __new__ allocates: no attribute is set yet
BareDatabase ==
    [st |-> "bare", dbname |-> "", nodes |-> <<>>, pc |-> "none", idx |-> 0]

HasNodes(h) == handles[h].st # "bare"

NoCall == [op |-> "none", res |-> "none", wf |-> FALSE]
NoProbe ==
    [h |-> 0, i |-> 0, conn |-> "none", called |-> FALSE,
     out |-> [kind |-> "never", ismaster |-> "absent", secondary |-> "absent"]]

Init ==
    /\ instance = None
    /\ handles = <<>>
    /\ cmds = EmptyBag
    /\ ret = NoCall
    /\ lastProbe = NoProbe
    /\ passes = 0
    /\ primary = 0

Returned(op, res, wf) == [op |-> op, res |-> res, wf |-> wf]

\* Database.init, when it runs to its end
InitDone(addresses, dbname) ==
    LET parsed == _parse_addresses(addresses)
    IN  [st |-> "ready", dbname |-> dbname.val,
         nodes |-> [i \in 1..Len(parsed) |-> NewNode(parsed[i][1], parsed[i][2])],
         pc |-> "scheduled", idx |-> 0]

\* Database.init, when Node.__init__ fails its assertion on dbname
InitAsserted(dbname) ==
    [st |-> "partial", dbname |-> dbname.val, nodes |-> <<>>, pc |-> "none", idx |-> 0]

\* Database() on an empty singleton followed by init: lines 172-173
Construct(addresses, dbname) ==
    /\ instance' = Len(handles) + 1
    /\ IF ~ParseOK(addresses)
       THEN /\ handles' = Append(handles, BareDatabase)
            /\ ret' = Returned("connect", "ParseError", FALSE)
       ELSE IF ~dbname.isStr /\ Len(AsList(addresses)) > 0
       THEN /\ handles' = Append(handles, InitAsserted(dbname))
            /\ ret' = Returned("connect", "AssertionError", FALSE)
       ELSE /\ handles' = Append(handles, InitDone(addresses, dbname))
            /\ ret' = Returned("connect", "ok", TRUE)

\* connect without the check of line 169: Database() returns the existing
\* object and init runs on it again
connect_reinit(addresses, dbname) ==
    /\ instance # None \/ Len(handles) < MaxHandles
    /\ IF instance # None
       THEN /\ ParseOK(addresses) /\ dbname.isStr
            /\ handles' = [handles EXCEPT ![instance] = InitDone(addresses, dbname)]
            /\ ret' = Returned("connect", "ok", TRUE)
            /\ UNCHANGED instance
       ELSE Construct(addresses, dbname)

\* Database.connect
connect(addresses, dbname) ==
    /\ instance # None \/ Len(handles) < MaxHandles
    /\ IF instance # None
       THEN /\ ret' = Returned("connect", "AlreadyInitiated", ParseOK(addresses) /\ dbname.isStr)
            /\ UNCHANGED <<instance, handles>>
       ELSE Construct(addresses, dbname)

\* disconnect leaving the loop over the nodes after the first one
disconnect_first ==
    /\ IF instance = None
       THEN /\ ret' = Returned("disconnect", "NotConnected", FALSE)
            /\ UNCHANGED <<instance, handles>>
       ELSE IF ~HasNodes(instance)
       THEN /\ ret' = Returned("disconnect", "AttributeError", FALSE)
            /\ UNCHANGED <<instance, handles>>
       ELSE /\ handles' = [handles EXCEPT ![instance].nodes =
                              [i \in 1..Len(@) |-> IF i = 1 THEN NodeDisconnect(@[i]) ELSE @[i]]]
            /\ instance' = None
            /\ ret' = Returned("disconnect", "ok", FALSE)

\* disconnect without the check of line 179: returns quietly when there is
\* no instance
disconnect_quiet ==
    /\ IF instance = None
       THEN /\ ret' = Returned("disconnect", "ok", FALSE)
            /\ UNCHANGED <<instance, handles>>
       ELSE IF ~HasNodes(instance)
       THEN /\ ret' = Returned("disconnect", "AttributeError", FALSE)
            /\ UNCHANGED <<instance, handles>>
       ELSE /\ handles' = [handles EXCEPT ![instance].nodes =
                              [i \in 1..Len(@) |-> NodeDisconnect(@[i])]]
            /\ instance' = None
            /\ ret' = Returned("disconnect", "ok", FALSE)

\* Database.disconnect
disconnect ==
    /\ IF instance = None
       THEN /\ ret' = Returned("disconnect", "NotConnected", FALSE)
            /\ UNCHANGED <<instance, handles>>
       ELSE IF ~HasNodes(instance)
       THEN /\ ret' = Returned("disconnect", "AttributeError", FALSE)
            /\ UNCHANGED <<instance, handles>>
       ELSE /\ handles' = [handles EXCEPT ![instance].nodes =
                              [i \in 1..Len(@) |-> NodeDisconnect(@[i])]]
            /\ instance' = None
            /\ ret' = Returned("disconnect", "ok", FALSE)

-----------------------------------------------------------------------------
\* The refresh loop: _config_nodes and Node.config

\* How a run of Node.config ends: kind says what came back, and a reply
\* carries the ismaster and secondary fields of the server's document
Outcome(kind, m, s) == [kind |-> kind, ismaster |-> m, secondary |-> s]
Failure(kind) == Outcome(kind, "absent", "absent")

\* before Node.config suspends: Connection() raises InterfaceError, or
\* _command raises it once the connection is open
SyncFailures == {Failure("connFail"), Failure("sendFail")}

\* the ismaster replies a server sends
Reply(m, s) == Outcome("reply", m, s)
Replies ==
    { Reply("T", "F"), Reply("F", "T"), Reply("F", "F"), Reply("T", "absent") }

\* a suspended Node.config is resumed: InterfaceError thrown at the yield,
\* an empty response with an error, or a reply document
AsyncOutcomes == {Failure("ierr"), Failure("none")} \cup Replies

IsReply(out) == out.kind = "reply"

\* the probe connection after Node.config: never opened, left open, closed
ConnAfter(out) ==
    IF out.kind = "connFail" THEN "none"
    ELSE IF out.kind \in {"sendFail", "ierr"} THEN "open"
    ELSE "closed"

\* Node.config lines 69-76: the node after the response was looked at
ConfigNode(node, out) ==
    IF IsReply(out)
    THEN IF out.ismaster = "absent" THEN node                 \* KeyError at line 70
         ELSE IF out.secondary = "absent"
              THEN [node EXCEPT !.is_master = out.ismaster]   \* KeyError at line 71
         ELSE [node EXCEPT !.is_master = out.ismaster,
                           !.is_secondary = (out.secondary = "T"),
                           !.available = TRUE]
    ELSE [node EXCEPT !.available = FALSE]

\* TRUE when Node.config reaches one of its callback() calls
ConfigCalls(out) ==
    IsReply(out) => (out.ismaster # "absent" /\ out.secondary # "absent")

\* _config_nodes from node i on, in one IOLoop callback: the nodes i, i+1, ...
\* whose config fails before suspending (ks), then either the probe of the
\* next node is in flight or the pass is over and the timeout is armed.
\* hs carries what the callback has done before this point.
ConfigFrom(h, hs, i, ks) ==
    LET n == Len(hs[h].nodes)
        k == Len(ks)
        nxt == i + k
        nodes2 == [j \in 1..n |->
                     IF j >= i /\ j < nxt
                     THEN ConfigNode(hs[h].nodes[j], ks[j - i + 1])
                     ELSE hs[h].nodes[j]]
        hs2 == [hs EXCEPT ![h].nodes = nodes2,
                          ![h].pc = IF nxt <= n THEN "probing" ELSE "idle",
                          ![h].idx = IF nxt <= n THEN nxt ELSE 0]
        \* Database() at line 61 is evaluated once Connection() has returned
        callsDatabase == nxt <= n \/ \E j \in 1..k : ks[j].kind = "sendFail"
    IN  /\ nxt <= n + 1
        /\ IF callsDatabase /\ instance = None
           THEN /\ instance' = Len(hs2) + 1
                /\ handles' = Append(hs2, BareDatabase)
           ELSE /\ instance' = instance
                /\ handles' = hs2

SyncRuns(h) == UNION { [1..k -> SyncFailures] : k \in 0..Len(handles[h].nodes) }

\* the IOLoop runs _config_nodes: the callback added by init, or the timeout
_config_nodes(h, ks) ==
    /\ handles[h].pc \in {"scheduled", "idle"}
    /\ ConfigFrom(h, handles, 1, ks)

\* config that arms the timeout as soon as the probe in flight has ended,
\* whatever nodes of the pass are left
config_early(h, out, ks) ==
    /\ handles[h].pc = "probing"
    /\ ks = <<>>
    /\ LET i == handles[h].idx
           hs == [handles EXCEPT ![h].nodes[i] = ConfigNode(@, out)]
       IN  IF ConfigCalls(out)
           THEN ConfigFrom(h, hs, Len(hs[h].nodes) + 1, ks)
           ELSE /\ handles' = [hs EXCEPT ![h].pc = "dead", ![h].idx = 0]
                /\ UNCHANGED instance

\* the IOLoop resumes the Node.config that _config_nodes is waiting for
config(h, out, ks) ==
    /\ handles[h].pc = "probing"
    /\ LET i == handles[h].idx
           hs == [handles EXCEPT ![h].nodes[i] = ConfigNode(@, out)]
       IN  IF ConfigCalls(out)
           THEN ConfigFrom(h, hs, i + 1, ks)
           ELSE \* the exception leaves the generators: nothing resumes the loop
                /\ ks = <<>>
                /\ handles' = [hs EXCEPT ![h].pc = "dead", ![h].idx = 0]
                /\ UNCHANGED instance

\* the record of a finished Node.config run
Probed(h, i, out) ==
    [h |-> h, i |-> i, out |-> out, conn |-> ConnAfter(out), called |-> ConfigCalls(out)]

\* the last Node.config run that finished in a callback that went through ks
ProbedLast(lp, h, i, ks) ==
    IF Len(ks) > 0 THEN Probed(h, i + Len(ks) - 1, ks[Len(ks)]) ELSE lp

-----------------------------------------------------------------------------
\* Node selection and dispatch

\* node.available and node.is_master, read as Python reads them: is_master
\* is looked at only on an available node, and is an AttributeError (-1)
\* while no probe has assigned it
RECURSIVE MasterFrom(_, _)
MasterFrom(nodes, i) ==
    IF i > Len(nodes) THEN 0
    ELSE IF nodes[i].available
         THEN IF nodes[i].is_master = "unset" THEN -1
              ELSE IF nodes[i].is_master = "T" THEN i
              ELSE MasterFrom(nodes, i + 1)
    ELSE MasterFrom(nodes, i + 1)

\* _get_master_node without the test of node.available
_get_master_node_stale(nodes) ==
    LET S == {i \in 1..Len(nodes) : nodes[i].is_master = "T"}
    IN  IF S = {} THEN 0 ELSE CHOOSE i \in S : \A j \in S : i <= j

\* Database._get_master_node: the node handed to the callback, 0 when the
\* search is put back on the IOLoop
_get_master_node(nodes) == MasterFrom(nodes, 1)

RECURSIVE SlaveFrom(_, _)
SlaveFrom(nodes, i) ==
    IF i > Len(nodes) THEN 0
    ELSE IF nodes[i].available
         THEN IF nodes[i].is_master = "unset" THEN -1
              ELSE IF nodes[i].is_master # "T" THEN i
              ELSE SlaveFrom(nodes, i + 1)
    ELSE SlaveFrom(nodes, i + 1)

\* Database._get_slave_node
_get_slave_node(nodes) ==
    IF SlaveFrom(nodes, 1) # 0 THEN SlaveFrom(nodes, 1) ELSE _get_master_node(nodes)

\* a call that waits for its node or for the pool of its node: pref is the
\* is_master argument the caller gave, is_master the one get_connection received
Pending(pref, is_master, h, sel) ==
    [pref |-> pref, is_master |-> is_master, h |-> h,
     pc |-> IF sel > 0 THEN "acquire" ELSE IF sel = 0 THEN "retry" ELSE "attrerr",
     node |-> IF sel > 0 THEN sel ELSE 0]

\* Database.get_connection up to node.pool.connection
get_connection(pref, is_master) ==
    /\ instance # None
    /\ HasNodes(instance)
    /\ BagCardinality(cmds) < MaxCmds
    /\ LET nodes == handles[instance].nodes
           sel == IF is_master THEN _get_master_node(nodes) ELSE _get_slave_node(nodes)
       IN  cmds' = cmds (+) SetToBag({Pending(pref, is_master, instance, sel)})

\* Database.send_message, called by the collaborators with their is_master
send_message(is_master) == get_connection(is_master, is_master)

\* the command-execution collaborator (Cursor.find): without a connection of
\* its own it asks the Database for one with the is_master it was given
CursorFind(pref, is_master) == get_connection(pref, is_master)

\* Database._command
_command(pref, is_master) == CursorFind(pref, is_master)

\* Database.command: line 246 passes is_master=True whatever the caller gave
command(is_master) == _command(is_master, TRUE)

Replace(c, d) == (cmds (-) SetToBag({c})) (+) SetToBag({d})

\* the IOLoop runs the partial(_get_master_node, callback) added at line 138
RetryMaster(c) ==
    /\ BagIn(c, cmds)
    /\ c.pc = "retry"
    /\ LET sel == _get_master_node(handles[c.h].nodes)
       IN  /\ sel # 0
           /\ cmds' = Replace(c, [c EXCEPT !.pc = IF sel > 0 THEN "acquire" ELSE "attrerr",
                                           !.node = IF sel > 0 THEN sel ELSE 0])

\* a call that has its connection: what is left of it is the is_master it
\* was dispatched with, the node, how far the write got, whether send_message
\* closed the connection, and what the caller's callback was called with
\* ("none" while it was not called)
Written(c, pc, closed, cb) ==
    [pc |-> pc, is_master |-> c.is_master, h |-> c.h, node |-> c.node,
     closed |-> closed, cb |-> cb]

\* Acquired with one connection for all the nodes: it is handed over only
\* while no other call is waiting on it for its response
Acquired_shared(c, writeOK) ==
    /\ BagIn(c, cmds)
    /\ c.pc = "acquire"
    /\ \A b \in BagToSet(cmds) : b.pc # "sent"
    /\ cmds' = Replace(c, IF writeOK
                           THEN Written(c, "sent", FALSE, "none")
                           ELSE Written(c, "raised", TRUE, "none"))

\* the pool hands over a connection; send_message lines 190-195 write the
\* message, and on an exception close the connection and re-raise
Acquired(c, writeOK) ==
    /\ BagIn(c, cmds)
    /\ c.pc = "acquire"
    /\ cmds' = Replace(c, IF writeOK
                           THEN Written(c, "sent", FALSE, "none")
                           ELSE \* lines 193-195: close, then raise out of the generator
                                Written(c, "raised", TRUE, "none"))

\* the response arrives and the caller's callback is run
Responded(c) ==
    /\ BagIn(c, cmds)
    /\ c.pc = "sent"
    /\ cmds' = Replace(c, Written(c, "done", FALSE, "result"))

-----------------------------------------------------------------------------
\* Specifications

\* one more refresh pass is started, within the bound of the model
StartPass(h, ks, max) ==
    /\ passes < max
    /\ _config_nodes(h, ks)
    /\ passes' = passes + 1

\* Spec: the lifecycle of the singleton and the refresh loops of all handles
Next ==
    \/ \E a \in AddressInputs, d \in DbNameInputs :
           connect(a, d) /\ UNCHANGED <<cmds, lastProbe, passes, primary>>
    \/ disconnect /\ UNCHANGED <<cmds, lastProbe, passes, primary>>
    \/ \E h \in 1..Len(handles) : \E ks \in SyncRuns(h) :
           StartPass(h, ks, MaxLoopPasses) /\ UNCHANGED <<cmds, ret, lastProbe, primary>>
    \/ \E h \in 1..Len(handles) : \E out \in AsyncOutcomes : \E ks \in SyncRuns(h) :
           config(h, out, ks) /\ UNCHANGED <<cmds, ret, lastProbe, passes, primary>>

Spec == Init /\ [][Next]_vars

\* SpecProbe: the refresh loop of one handle, with a log of the last probe
NextProbe ==
    \/ \E a \in AddressInputs, d \in DbNameInputs :
           /\ handles = <<>>
           /\ connect(a, d)
           /\ UNCHANGED <<cmds, lastProbe, passes, primary>>
    \/ \E h \in 1..Len(handles) : \E ks \in SyncRuns(h) :
           /\ StartPass(h, ks, MaxPasses)
           /\ lastProbe' = ProbedLast(lastProbe, h, 1, ks)
           /\ UNCHANGED <<cmds, ret, primary>>
    \/ \E h \in 1..Len(handles) : \E out \in AsyncOutcomes : \E ks \in SyncRuns(h) :
           /\ config(h, out, ks)
           /\ lastProbe' = ProbedLast(Probed(h, handles[h].idx, out), h, handles[h].idx + 1, ks)
           /\ UNCHANGED <<cmds, ret, passes, primary>>

SpecProbe == Init /\ [][NextProbe]_vars

\* SpecDispatch: the calls made on one handle while it is connected
NextDispatch ==
    \/ \E a \in AddressInputs, d \in DbNameInputs :
           /\ handles = <<>>
           /\ connect(a, d)
           /\ UNCHANGED <<cmds, lastProbe, passes, primary>>
    \/ \E h \in 1..Len(handles) : \E ks \in SyncRuns(h) :
           StartPass(h, ks, MaxPasses) /\ UNCHANGED <<cmds, ret, lastProbe, primary>>
    \/ \E h \in 1..Len(handles) : \E out \in AsyncOutcomes : \E ks \in SyncRuns(h) :
           config(h, out, ks) /\ UNCHANGED <<cmds, ret, lastProbe, passes, primary>>
    \/ \E m \in BOOLEAN :
           command(m) /\ UNCHANGED <<instance, handles, ret, lastProbe, passes, primary>>
    \/ \E m \in BOOLEAN :
           send_message(m) /\ UNCHANGED <<instance, handles, ret, lastProbe, passes, primary>>
    \/ \E c \in BagToSet(cmds) :
           RetryMaster(c) /\ UNCHANGED <<instance, handles, ret, lastProbe, passes, primary>>
    \/ \E c \in BagToSet(cmds) : \E ok \in BOOLEAN :
           Acquired(c, ok) /\ UNCHANGED <<instance, handles, ret, lastProbe, passes, primary>>
    \/ \E c \in BagToSet(cmds) :
           Responded(c) /\ UNCHANGED <<instance, handles, ret, lastProbe, passes, primary>>

SpecDispatch == Init /\ [][NextDispatch]_vars

\* the servers of the cluster, by the index of their address: a:1 and b:2
Servers == 1..2

\* the cluster elects another primary, or is left without one
Failover(p) ==
    /\ p # primary
    /\ primary' = p

\* what the server of node i answers to ismaster at this instant
ServerReplies(i) ==
    IF primary = i THEN {Reply("T", "F")} ELSE {Reply("F", "T"), Reply("F", "F")}

\* SpecFailover: the refresh loop of one handle over a cluster that has at
\* most one primary at any instant and may change it between two probes
NextFailover ==
    \/ \E a \in AddressInputs, d \in DbNameInputs :
           /\ handles = <<>>
           /\ connect(a, d)
           /\ UNCHANGED <<cmds, lastProbe, passes, primary>>
    \/ \E h \in 1..Len(handles) : \E ks \in SyncRuns(h) :
           StartPass(h, ks, MaxPasses) /\ UNCHANGED <<cmds, ret, lastProbe, primary>>
    \/ \E h \in 1..Len(handles) : \E ks \in SyncRuns(h) :
       \E out \in {Failure("ierr"), Failure("none")} \cup ServerReplies(handles[h].idx) :
           config(h, out, ks) /\ UNCHANGED <<cmds, ret, lastProbe, passes, primary>>
    \/ \E p \in {0} \cup Servers :
           Failover(p) /\ UNCHANGED <<instance, handles, cmds, ret, lastProbe, passes>>

SpecFailover == Init /\ [][NextFailover]_vars

\* The callbacks of SpecLive, which follows the calls made on one handle for
\* as long as its refresh loop runs: there is no bound on the passes

\* the callback added by init, or the timeout of line 129, runs _config_nodes
LoopTick ==
    \E h \in 1..Len(handles) : \E ks \in SyncRuns(h) :
        _config_nodes(h, ks) /\ UNCHANGED <<cmds, ret, lastProbe, passes, primary>>

\* the probe in flight ends
ProbeEnds ==
    \E h \in 1..Len(handles) : \E out \in AsyncOutcomes : \E ks \in SyncRuns(h) :
        config(h, out, ks) /\ UNCHANGED <<cmds, ret, lastProbe, passes, primary>>

\* the callback added at line 138 runs and finds a node
RetryTick ==
    \E c \in BagToSet(cmds) :
        RetryMaster(c) /\ UNCHANGED <<instance, handles, ret, lastProbe, passes, primary>>

\* the pool of the node hands over a connection and the message is written
Handover ==
    \E c \in BagToSet(cmds) : \E ok \in BOOLEAN :
        Acquired(c, ok) /\ UNCHANGED <<instance, handles, ret, lastProbe, passes, primary>>

NextLive ==
    \/ \E a \in AddressInputs, d \in DbNameInputs :
           /\ handles = <<>>
           /\ connect(a, d)
           /\ UNCHANGED <<cmds, lastProbe, passes, primary>>
    \/ LoopTick
    \/ ProbeEnds
    \/ \E m \in BOOLEAN :
           command(m) /\ UNCHANGED <<instance, handles, ret, lastProbe, passes, primary>>
    \/ \E m \in BOOLEAN :
           send_message(m) /\ UNCHANGED <<instance, handles, ret, lastProbe, passes, primary>>
    \/ RetryTick
    \/ Handover

\* the IOLoop runs every callback and every timeout it was given, every probe
\* ends, and every pool hands over a connection
SpecLive ==
    /\ Init
    /\ [][NextLive]_vars
    /\ WF_vars(LoopTick)
    /\ WF_vars(ProbeEnds)
    /\ WF_vars(RetryTick)
    /\ WF_vars(Handover)

-----------------------------------------------------------------------------
\* Properties

Handles == 1..Len(handles)

\* a connect() or disconnect() call returns or raises in this step
Called(op) == ret'.op = op /\ ret' # ret

\* what connect() hands out: nodes in address order, none probed yet
Fresh(d) ==
    /\ d.st = "ready"
    /\ d.pc = "scheduled"
    /\ \A i \in 1..Len(d.nodes) :
           ~d.nodes[i].available /\ d.nodes[i].closed = 0 /\ Role(d.nodes[i]) = "Unknown"

\* C1: after a disconnect() of a connected handle, the next connect() with
\* well-formed arguments succeeds and yields a fresh handle, whatever
\* callbacks of the previous handle's refresh loop ran in between
C1_ReconnectSucceeds ==
    [][ (ret.op = "disconnect" /\ ret.res = "ok" /\ Called("connect") /\ ret'.wf)
        => (/\ ret'.res = "ok"
            /\ instance' = Len(handles')
            /\ Fresh(handles'[instance'])) ]_vars

\* C2 as claimed: connect() on an existing handle does not fail and leaves
\* the handle, its nodes and its refresh loop as they were
C2_ConnectIdempotent ==
    [][ (instance # None /\ Called("connect"))
        => (ret'.res = "ok" /\ instance' = instance /\ handles' = handles) ]_vars

\* C2 as amended: connect() on an existing handle raises "already initiated"
\* and leaves the handle, its nodes and its refresh loop as they were
C2_ConnectRejected ==
    [][ (instance # None /\ Called("connect"))
        => (ret'.res = "AlreadyInitiated" /\ instance' = instance /\ handles' = handles) ]_vars

C2_Witness ==
    /\ ret.op = "connect" /\ ret.res = "AlreadyInitiated"
    /\ instance # None
    /\ handles[instance].st = "ready"
    /\ handles[instance].pc # "scheduled"

\* a handle that a successful connect() made and no disconnect() has closed
Connected(h) ==
    /\ handles[h].st = "ready"
    /\ \A i \in 1..Len(handles[h].nodes) : handles[h].nodes[i].closed = 0

\* C3: an instance exists exactly while a handle made by a successful
\* connect() has not been disconnected, and that handle is the instance
C3_InstanceIffConnected ==
    /\ instance # None <=> \E h \in Handles : Connected(h)
    /\ instance # None => Connected(instance)

\* C4: disconnect() of a connected handle closes the pool of each of its
\* nodes, clears the singleton, and no pool is ever closed a second time
C4_PoolsClosedOnce ==
    [][ /\ (instance # None /\ handles[instance].st = "ready" /\ Called("disconnect"))
           => (/\ ret'.res = "ok"
               /\ instance' = None
               /\ \A i \in 1..Len(handles[instance].nodes) :
                      /\ handles[instance].nodes[i].closed = 0
                      /\ handles'[instance].nodes[i].closed = 1)
        /\ \A h \in Handles : \A i \in 1..Len(handles[h].nodes) :
               handles'[h].nodes[i].closed <= 1 ]_vars

C4_Witness ==
    /\ ret.op = "disconnect" /\ ret.res = "ok"
    /\ instance = None
    /\ \E h \in Handles :
           /\ Len(handles[h].nodes) = 2
           /\ \A i \in 1..2 : handles[h].nodes[i].closed = 1

\* C5: disconnect() without an instance raises "not connected" and changes
\* neither the singleton, nor any handle or pool, nor any call on its way
C5_DisconnectNotConnected ==
    [][ (instance = None /\ Called("disconnect"))
        => (/\ ret'.res = "NotConnected"
            /\ instance' = None
            /\ handles' = handles
            /\ cmds' = cmds) ]_vars

C5_Witness ==
    /\ ret.op = "disconnect" /\ ret.res = "NotConnected"
    /\ instance = None
    /\ \E h \in Handles : handles[h].st = "ready"

\* the first node in list order that is available with the given role, or 0
FirstWithRole(nodes, role) ==
    LET S == {i \in 1..Len(nodes) : nodes[i].available /\ Role(nodes[i]) = role}
    IN  IF S = {} THEN 0 ELSE CHOOSE i \in S : \A j \in S : i <= j

\* the call c enters get_connection in this step
Issued(c) ==
    /\ BagCardinality(cmds') = BagCardinality(cmds) + 1
    /\ CopiesIn(c, cmds') > CopiesIn(c, cmds)

\* the waiting call c is handed a node by a retry of _get_master_node
Retried(c) ==
    /\ BagCardinality(cmds') = BagCardinality(cmds)
    /\ CopiesIn(c, cmds') > CopiesIn(c, cmds)
    /\ \E b \in BagToSet(cmds) : b.pc = "retry" /\ CopiesIn(b, cmds') < CopiesIn(b, cmds)

\* a call that came through command(): one whose preference was replaced
\* on the way, or one with the Primary preference, which command() and
\* send_message() dispatch alike
ViaCommand(c) == c.pref # c.is_master \/ c.pref

\* C6: command() is routed by the read preference its caller gave: with the
\* Secondary preference and an available secondary to a secondary, with the
\* Primary preference to a primary
C6_CommandHonoursPreference ==
    [][ \A c \in BagToSet(cmds') :
          (Issued(c) /\ ViaCommand(c))
          => LET nodes == handles[c.h].nodes
             IN  /\ (~c.pref /\ FirstWithRole(nodes, "Secondary") # 0)
                    => (c.pc = "acquire" /\ Role(nodes[c.node]) = "Secondary")
                 /\ (c.pref /\ c.pc = "acquire")
                    => Role(nodes[c.node]) = "Primary" ]_vars

\* C7: selection for the Secondary preference hands out the first available
\* node with role Secondary, else what the Primary rule gives, and never an
\* available node of role Unknown
C7_SecondarySelection ==
    [][ \A c \in BagToSet(cmds') :
          (Issued(c) /\ ~c.is_master)
          => LET nodes == handles[c.h].nodes
                 sec == FirstWithRole(nodes, "Secondary")
             IN  /\ c.node = IF sec # 0 THEN sec ELSE FirstWithRole(nodes, "Primary")
                 /\ c.pc = "acquire" => Role(nodes[c.node]) # "Unknown" ]_vars

\* C8: selection for the Primary preference, at the call and at every retry,
\* hands out the first node in list order that is available with role
\* Primary, and hands out nothing when there is none
C8_PrimarySelection ==
    [][ \A c \in BagToSet(cmds') :
          ((Issued(c) /\ c.is_master) \/ Retried(c))
          => LET nodes == handles[c.h].nodes
                 pri == FirstWithRole(nodes, "Primary")
             IN  /\ c.node = pri
                 /\ c.pc = "acquire" <=> pri # 0
                 /\ c.pc = "acquire" => nodes[c.node].available ]_vars

\* a Primary call was handed the second node while the first one, last seen
\* as primary, is unavailable
C8_Witness ==
    \E c \in BagToSet(cmds) :
        /\ c.pc = "acquire" /\ c.is_master /\ c.node = 2
        /\ ~handles[c.h].nodes[1].available
        /\ handles[c.h].nodes[1].is_master = "T"
        /\ handles[c.h].nodes[2].available

\* the node the last finished Node.config run was about
Probee == handles[lastProbe.h].nodes[lastProbe.i]

\* C9: after a probe that got a reply the node has the role the reply gives
\* (Primary on ismaster, else Secondary on secondary, else Unknown), is
\* available, and the probe has called back
C9_ProbeSuccess ==
    lastProbe.out.kind = "reply"
    => /\ Role(Probee) = IF lastProbe.out.ismaster = "T" THEN "Primary"
                         ELSE IF lastProbe.out.secondary = "T" THEN "Secondary"
                         ELSE "Unknown"
       /\ Probee.available
       /\ lastProbe.called

\* C10: after a failed probe the node is unavailable and its role is Unknown
C10_ProbeFailure ==
    lastProbe.out.kind \in {"connFail", "sendFail", "ierr", "none"}
    => (~Probee.available /\ Role(Probee) = "Unknown")

\* C11: every finished probe, successful or failed, has closed the probe
\* connection it opened and has called back, so that nothing of it leaves
\* Node.config as an exception
C11_ProbeContained ==
    lastProbe.out.kind # "never"
    => (lastProbe.conn # "open" /\ lastProbe.called)

\* C12: no probe stops the refresh loop of a handle: whatever a probe of one
\* of its nodes came to, the loop is waiting to start, has the probe of a
\* node in flight, or has armed the timeout of its next pass. (A loop that
\* is in none of these probes no node ever again.)
C12_LoopNeverStops ==
    \A h \in Handles :
        handles[h].st = "ready" => handles[h].pc \in {"scheduled", "probing", "idle"}

\* C13: a call whose write on its connection failed has that connection
\* closed and its callback called, once, with the error
C13_WriteFailureDelivered ==
    \A c \in BagToSet(cmds) :
        c.pc = "raised" => (c.closed /\ c.cb = "error")

\* a call that is waiting for the pool of its node or for its response
InFlight(c) == c.pc \in {"acquire", "sent"}

Primaries(h) ==
    {i \in 1..Len(handles[h].nodes) :
        handles[h].nodes[i].available /\ Role(handles[h].nodes[i]) = "Primary"}

\* C15: over a cluster with at most one primary at any instant, at most one
\* node of a handle is recorded as available with role Primary
C15_AtMostOnePrimary ==
    \A h \in Handles : Cardinality(Primaries(h)) <= 1

\* C16: the retry of a waiting call applies the rule of the preference the
\* call was dispatched with: while a call with the Secondary preference
\* waits and a secondary is available, the retry that the IOLoop runs next
\* hands it the first available secondary
C16_RetryHonoursPreference ==
    \A c \in BagToSet(cmds) :
        (c.pc = "retry" /\ ~c.is_master)
        => LET sec == FirstWithRole(handles[c.h].nodes, "Secondary")
           IN  sec # 0
               => ENABLED (/\ RetryMaster(c)
                           /\ BagIn([c EXCEPT !.pc = "acquire", !.node = sec], cmds'))

\* a call made with preference m (TRUE: Primary) is waiting for a node
Waiting(m) == \E c \in BagToSet(cmds) : c.pc = "retry" /\ c.pref = m

\* a node that the rule of preference m accepts is available: a primary,
\* and for the Secondary preference a secondary as well
Matching(m) ==
    \E h \in Handles :
        \/ FirstWithRole(handles[h].nodes, "Primary") # 0
        \/ ~m /\ FirstWithRole(handles[h].nodes, "Secondary") # 0

\* C17: a call that found no node for its preference waits for one, and
\* once a matching node is available and stays so, every waiting call of
\* that preference is eventually handed a node
C17_EventuallyDispatched ==
    \A m \in BOOLEAN : (<>[]Matching(m)) => (<>[]~Waiting(m))

\* C18: a refresh loop has one probe in flight at most and takes the nodes
\* in list order, once each per pass: the probe of node 1 starts when the
\* pass starts, the probe of a later node starts in the callback in which
\* the probe of the node before it ended, a probe in flight is followed by
\* one of a later node, and the timeout of the next pass is armed in the
\* callback in which the probe of the last node ended
C18_SequentialProbes ==
    [][ \A h \in Handles :
          LET n == Len(handles[h].nodes)
              a == handles[h]
              b == handles'[h]
          IN  b # a
              => /\ b.pc = "probing"
                    => /\ b.idx \in 1..n
                       /\ b.idx = 1 => a.pc \in {"scheduled", "idle"}
                       /\ b.idx > 1 => (lastProbe'.h = h /\ lastProbe'.i = b.idx - 1)
                       /\ a.pc = "probing" => b.idx > a.idx
                 /\ a.pc = "probing"
                    => (lastProbe'.h = h /\ lastProbe'.i >= a.idx)
                 /\ (b.pc = "idle" /\ a.pc # "idle")
                    => (lastProbe'.h = h /\ lastProbe'.i = n) ]_vars

\* the second pass over a handle of two nodes is over: both nodes answered
\* their probes and the timeout of the third pass is armed
C18_Witness ==
    \E h \in Handles :
        /\ Len(handles[h].nodes) = 2
        /\ handles[h].pc = "idle"
        /\ passes = 2
        /\ lastProbe.h = h /\ lastProbe.i = 2 /\ IsReply(lastProbe.out)
        /\ \A i \in 1..2 : handles[h].nodes[i].available

\* C19: a connect() that fails on a malformed address leaves everything as
\* it was before the call: there is no instance, and no Database object, no
\* node and no refresh loop was made
C19_FailedConnectLeavesNothing ==
    [][ (Called("connect") /\ ret'.res = "ParseError")
        => (instance' = None /\ handles' = handles) ]_vars

\* C20: a node that is available has had its is_master assigned by a probe,
\* so that neither selection raises AttributeError on the node list of any
\* handle, and no call ends in one
C20_MasterFlagAssigned ==
    /\ \A h \in Handles :
           /\ \A i \in 1..Len(handles[h].nodes) :
                  handles[h].nodes[i].available => handles[h].nodes[i].is_master # "unset"
           /\ _get_master_node(handles[h].nodes) >= 0
           /\ _get_slave_node(handles[h].nodes) >= 0
    /\ \A c \in BagToSet(cmds) : c.pc # "attrerr"

\* selection went past the first node, which no probe has given an is_master
\* and which is unavailable, and handed out the second
C20_Witness ==
    \E c \in BagToSet(cmds) :
        /\ c.pc = "acquire" /\ c.node = 2
        /\ handles[c.h].nodes[1].is_master = "unset"
        /\ ~handles[c.h].nodes[1].available
        /\ handles[c.h].nodes[2].available
        /\ handles[c.h].nodes[2].is_master # "unset"

====
